---- MODULE Spec2Model ----
(***************************************************************************)
(* Model of the ingestion-and-maintenance engine of the DonutSMP auction   *)
(* house scanner (scanner.py): the event store (store_listings,            *)
(* store_transactions), the retention compactor (compact_old_data), the    *)
(* market client (fetch_listings, fetch_transactions) and the schedulers   *)
(* (poll_once, run_poll_loop, full_scan_ah); and of the reporting surface  *)
(* that reads the store (api.py): the statistics engine (_get_item_stats)  *)
(* and the handlers of the endpoints.                                      *)
(*                                                                         *)
(* The module holds several specifications over one set of variables:      *)
(*   SpecStore     the event store and the compactor on one connection     *)
(*   SpecFetch     one call of fetch_listings / fetch_transactions         *)
(*   SpecPoll      run_poll_loop: the startup scan, then the loop with     *)
(*                 poll_once and the compaction timer                      *)
(*   FairSpecPoll  SpecPoll with the loop always taking its next step      *)
(*   SpecScan      full_scan_ah                                            *)
(*   FairSpecScan  SpecScan with the scan always taking its next step      *)
(*   SpecStats     the per-sample computations of _get_item_stats and of   *)
(*                 the compactor's rollup                                  *)
(*   SpecApi       the handlers of api.py on a stored table                *)
(* Each specification moves its own variables and leaves the others at     *)
(* their idle values.                                                      *)
(***************************************************************************)
EXTENDS Integers, Sequences, FiniteSets, TLC

(***************************************************************************)
(* Bounds of the model.                                                    *)
(***************************************************************************)
\* rows ever inserted into events (AUTOINCREMENT ids 1..MaxEvents)
MaxEvents == 2
\* the clock runs from 0 to MaxTime
MaxTime == 4

(***************************************************************************)
(* Time.  _now_millis() is read from the variable now; one calendar day    *)
(* (86400 * 1000 ms in compact_old_data) is DayLen clock units, so that a  *)
(* cutoff can fall inside a day.  RAW_RETENTION_DAYS is read from          *)
(* config.ini (storage.raw_retention_days); the model runs with 1.         *)
(***************************************************************************)
DayLen == 2
RAW_RETENTION_DAYS == 1

\* SQL NULL / Python None in a TEXT column
NULL == "NULL"
\* SQL NULL in the REAL column price; a stored price p is <<p>>
NoPrice == << >>

(***************************************************************************)
(* Upstream entries.  An entry of a page's "result" carries item.id,       *)
(* item.display_name and price as the upstream sends them.  "abc" stands   *)
(* for any value on which the loop body of store_listings /                *)
(* store_transactions raises (float("abc") is a ValueError).  The columns  *)
(* seller_name, seller_uuid, count and time_left are copied through by the *)
(* code and read by no operation modelled here; they are not carried.      *)
(***************************************************************************)
\* the items the upstream sends: one with neither id nor display_name, one with both
Items == {[id |-> NULL, display_name |-> NULL], [id |-> "a", display_name |-> "A"]}
RawPrices == {"null", "10", "abc"}

Entries == [item : Items, price : RawPrices]

VARIABLES
    now,          \* the wall clock, _now_millis()
    events,       \* table events as the scanner's connection sees it, in id order
    uncommitted,  \* ids of the rows of events inserted in the still open transaction
    nextId,       \* the next AUTOINCREMENT id of events
    call,         \* the store call in progress: "none", "listing" or "transaction"
    inserted,     \* the local counter "inserted" of the call in progress
    rollups,      \* table rollups_daily: a set of rows, each with its rowid
    nextRowid,    \* the next rowid of rollups_daily
    compactRuns,  \* compact_old_data runs since the last append or clock advance (0, 1, 2 = two or more)
    evicted,      \* the listing rows with a price that compact_old_data has deleted so far
    prices_tbl,   \* table prices, in insertion order
    listings_tbl  \* table listings, in insertion order

storeVars == <<now, events, uncommitted, nextId, call, inserted, rollups, nextRowid, compactRuns,
               evicted, prices_tbl, listings_tbl>>

VARIABLES
    authKey,      \* whether AUTH_KEY (DONUTSMP_AUTH_KEY) is set
    f_fn,         \* the client function called: "fetch_listings" or "fetch_transactions"
    f_page,       \* its argument page
    f_pc,         \* "call" before the call, "returned" after it
    f_requests,   \* the upstream requests the call has sent
    f_exc,        \* the exception the call raised, "none" when it returned
    f_slept,      \* the seconds the call slept
    f_data        \* what the call returned: "items", "empty" or "none"

fetchVars == <<f_fn, f_page, f_pc, f_requests, f_exc, f_slept, f_data>>

VARIABLES
    pages,        \* the argument pages of run_poll_loop / poll_once
    pc,           \* where run_poll_loop is: "initial", "top", "listings", "transactions", "after_poll", "compacting", "crashed"
    p,            \* the loop variable p of poll_once
    poll_count,   \* poll_count, counted up to MaxPolls
    fetchedL,     \* per listing page, the fetch_listings calls of this cycle
    fetchedT,     \* per transaction page, the fetch_transactions calls of this cycle
    failed,       \* whether a page of this pass (the startup scan or a poll cycle) raised
    unauthorized, \* whether a fetch of this poll cycle got HTTP 401
    escaped,      \* whether an exception left poll_once in this cycle
    handler,      \* the except clause of run_poll_loop that ran in this cycle, "none" if none
    pauseDue,     \* whether an HTTP 401 was received and no sleep has been taken since
    compactFailed, \* whether compact_old_data raised in this cycle
    clock,        \* time.time(), in clock units of the scheduler
    _last_compaction, \* the global _last_compaction
    compactionOwed, \* whether the latest run of compact_old_data raised
    init_i        \* the loop variable i of the startup scan (1 again once polling has started)

pollVars == <<pages, pc, p, poll_count, fetchedL, fetchedT, failed, unauthorized, escaped,
              handler, pauseDue, compactFailed, clock, _last_compaction, compactionOwed, init_i>>

VARIABLES
    scan_pc,            \* where full_scan_ah is: "listings", "transactions", "done", "interrupted"
    page,               \* page
    consecutive_empty,  \* consecutive_empty
    retry_count,        \* retry_count
    tx_page,            \* the loop variable p of the transaction sweep
    retry,              \* retry
    pageFetches,        \* the fetch_listings calls made so far for the current page number
    lastFetches,        \* the fetch_listings calls made for the page number just left
    lastOutcome,        \* how the page number just left ended: "stored", "empty", "exhausted"; "none" at first
    trailingEmpty,      \* the pages in a row, up to the one just left, that ended "empty" or "exhausted"
    emptyRun,           \* the pages that ended "empty" or "exhausted" since the last non-empty response
    lastFailure,        \* why the last attempt failed when the same page is to be tried again, else "none"
    everyFailed,        \* whether every fetch of the scan so far has raised
    listingFetches,     \* the fetch_listings calls so far, counted as long as everyFailed holds (0 afterwards)
    transactionFetches, \* the fetch_transactions calls so far, counted as long as everyFailed holds (0 afterwards)
    storeCalled         \* whether store_listings or store_transactions has been called by the scan

scanVars == <<scan_pc, page, consecutive_empty, retry_count, tx_page, retry, pageFetches,
              lastFetches, lastOutcome, trailingEmpty, emptyRun, lastFailure,
              everyFailed, listingFetches, transactionFetches, storeCalled>>

VARIABLES
    sample,       \* the list prices that _get_item_stats fetched, or the prices of one rollup group
    s_pc,         \* "input" before the computation, then "stats" or "rollup"; "idle" when unused
    s_out         \* what the computation returned

statVars == <<sample, s_pc, s_out>>

VARIABLES
    api_call,     \* the operation of api.py that has run: "none" before it
    api_arg,      \* its argument: the identity given to _get_item_stats, the item_id of api_trend
    api_response  \* what it returned

apiVars == <<api_call, api_arg, api_response>>

\* the state of the statistics engine and of the reporting surface
readVars == <<statVars, apiVars>>

vars == <<storeVars, authKey, fetchVars, pollVars, scanVars, readVars>>

\* what the store and the compactor leave alone
notStore == <<authKey, fetchVars, pollVars, scanVars, readVars>>

(***************************************************************************)
(* Pure helpers.                                                           *)
(***************************************************************************)
Range(s) == {s[i] : i \in DOMAIN s}

RECURSIVE Insert(_, _)
Insert(x, s) ==
    IF s = << >> THEN <<x>>
    ELSE IF x <= Head(s) THEN <<x>> \o s
    ELSE <<Head(s)>> \o Insert(x, Tail(s))

\* sorted(prices)
RECURSIVE Sorted(_)
Sorted(s) == IF s = << >> THEN << >> ELSE Insert(Head(s), Sorted(Tail(s)))

Max(a, b) == IF a >= b THEN a ELSE b
Min(a, b) == IF a <= b THEN a ELSE b

\* statistics.median of a sorted non-empty sequence (0-based s[n // 2] is s[n \div 2 + 1]).
\* The prices of the model are such that the mean of the two middle values of
\* an even-sized sample is an integer, so \div is exact.
Median(s) ==
    LET n == Len(s) IN
    IF n % 2 = 1 THEN s[n \div 2 + 1]
    ELSE (s[n \div 2] + s[n \div 2 + 1]) \div 2

\* float(price) if price is not None else None; defined for the prices that convert
Float(v) ==
    CASE v = "null" -> NoPrice
      [] v = "10" -> <<10>>

\* whether the loop body of store_listings / store_transactions raises on entry e
Raises(e) == e.price = "abc"

\* _item_display: (item_id, name), the name falling back to the id
ItemDisplay(item) ==
    <<item.id, IF item.display_name = NULL THEN item.id ELSE item.display_name>>

\* the row INSERTed for entry e by a call that read the clock at ts
EventRow(id, type, ts, e) ==
    [id |-> id, type |-> type, ts |-> ts,
     item_id |-> ItemDisplay(e.item)[1], item_name |-> ItemDisplay(e.item)[2],
     price |-> Float(e.price)]

(***************************************************************************)
(* store_listings / store_transactions.  One call is the run               *)
(*   BeginStore, InsertEntry*, (RaiseInLoop | CommitStore)                 *)
(* and nothing else moves while a call is in progress: the scanner is one  *)
(* sequential process.  The entries of the page are drawn one at a time    *)
(* as the loop reaches them.  The INSERTs run in the connection's implicit *)
(* transaction; conn.commit() is reached only when the loop has run        *)
(* through the whole page, and commits everything the transaction holds.   *)
(* When an entry raises, the exception leaves the function with the rows   *)
(* inserted so far still in the open transaction: there is no rollback.    *)
(***************************************************************************)
\* a store call that also records the price of a listing in the table prices
PriceRowsOfListing(row) ==
    IF row.type = "listing"
    THEN <<[id |-> row.id, item_id |-> row.item_id, item_name |-> row.item_name,
            price |-> row.price, seen_at |-> row.ts]>>
    ELSE << >>

\* the rows a store call INSERTs into the table prices for the event row it
\* INSERTs into events: none, the only INSERT of the loop body is into events
PriceRowsOf(row) == << >>

\* cur = conn.cursor(); inserted = 0; ts = _now_millis()
BeginStore(type) ==
    /\ call' = type
    /\ inserted' = 0
    /\ compactRuns' = 0
    /\ UNCHANGED <<now, events, uncommitted, nextId, rollups, nextRowid, evicted, prices_tbl, listings_tbl>>
    /\ UNCHANGED notStore

\* one pass of "for entry in result" on an entry that converts: cur.execute(INSERT ...)
InsertEntry ==
    /\ call # "none"
    /\ nextId <= MaxEvents
    /\ \E e \in {x \in Entries : ~Raises(x)} :
          /\ events' = Append(events, EventRow(nextId, call, now, e))
          /\ prices_tbl' = prices_tbl \o PriceRowsOf(EventRow(nextId, call, now, e))
    /\ uncommitted' = uncommitted \cup {nextId}
    /\ nextId' = nextId + 1
    /\ inserted' = inserted + 1
    /\ UNCHANGED <<now, call, rollups, nextRowid, compactRuns, evicted, listings_tbl>>
    /\ UNCHANGED notStore

\* one pass of the loop on an entry that raises: the exception leaves the call
RaiseInLoop ==
    /\ call # "none"
    /\ \E e \in Entries : Raises(e)
    /\ call' = "none"
    /\ inserted' = 0
    /\ UNCHANGED <<now, events, uncommitted, nextId, rollups, nextRowid, compactRuns, evicted,
                   prices_tbl, listings_tbl>>
    /\ UNCHANGED notStore

\* the loop is through: conn.commit(); return inserted
CommitStore ==
    /\ call # "none"
    /\ uncommitted' = {}
    /\ call' = "none"
    /\ inserted' = 0
    /\ UNCHANGED <<now, events, nextId, rollups, nextRowid, compactRuns, evicted, prices_tbl, listings_tbl>>
    /\ UNCHANGED notStore

store_listings ==
    /\ call = "none"
    /\ BeginStore("listing")

store_transactions ==
    /\ call = "none"
    /\ BeginStore("transaction")

(***************************************************************************)
(* compact_old_data.                                                       *)
(***************************************************************************)
\* date(ts / 1000, 'unixepoch'): the calendar day of ts
DateOf(ts) == ts \div DayLen

\* cutoff = now - RAW_RETENTION_DAYS * 86400 * 1000
Cutoff(t) == t - RAW_RETENTION_DAYS * DayLen

\* SELECT date, item_id, item_name FROM events WHERE ts < cutoff AND type = 'listing'
\* GROUP BY date, item_id, item_name   (GROUP BY puts NULLs in one group)
Groups(ev, cutoff) ==
    { <<DateOf(ev[i].ts), ev[i].item_id, ev[i].item_name>> :
        i \in {j \in DOMAIN ev : ev[j].ts < cutoff /\ ev[j].type = "listing"} }

\* SELECT price FROM events WHERE date(..) = ? AND item_id IS ? AND item_name IS ?
\*   AND price IS NOT NULL AND type = 'listing'      (no condition on ts)
RECURSIVE GroupPrices(_, _)
GroupPrices(ev, g) ==
    IF ev = << >> THEN << >>
    ELSE LET r == Head(ev) IN
         (IF /\ DateOf(r.ts) = g[1]
             /\ r.item_id = g[2]
             /\ r.item_name = g[3]
             /\ r.price # NoPrice
             /\ r.type = "listing"
          THEN <<r.price[1]>> ELSE << >>) \o GroupPrices(Tail(ev), g)

\* prices_sorted[max(0, len * 25 // 100 - 1)]
P25(s) == s[Max(0, (Len(s) * 25) \div 100 - 1) + 1]

\* prices_sorted[min(len - 1, len * 75 // 100 - 1)]; a Python index of -1 is the last element
P75(s) ==
    LET k == Min(Len(s) - 1, (Len(s) * 75) \div 100 - 1) IN
    IF k < 0 THEN s[Len(s) + k + 1] ELSE s[k + 1]

\* the values (date, item_id, item_name, median, p25, p75, count) of one group's rollup
RollupValues(ev, g) ==
    LET s == Sorted(GroupPrices(ev, g)) IN
    [date |-> g[1], item_id |-> g[2], item_name |-> g[3],
     median |-> Median(s), p25 |-> P25(s), p75 |-> P75(s), count |-> Len(s)]

\* the groups whose price list is not empty ("if prices:")
RolledGroups(ev, cutoff) == {g \in Groups(ev, cutoff) : GroupPrices(ev, g) # << >>}

\* PRIMARY KEY (date, item_id, item_name) of a table that is not WITHOUT ROWID:
\* SQLite lets the key columns be NULL and treats every NULL as distinct from
\* every other value, NULL included, so a row with a NULL key column conflicts
\* with no row.
KeyConflict(r, g) ==
    /\ g[2] # NULL
    /\ g[3] # NULL
    /\ r.date = g[1]
    /\ r.item_id = g[2]
    /\ r.item_name = g[3]

\* an enumeration of a finite set of groups (the order the cursor returns them in)
RECURSIVE SetToSeq(_)
SetToSeq(S) ==
    IF S = {} THEN << >>
    ELSE LET x == CHOOSE y \in S : TRUE IN <<x>> \o SetToSeq(S \ {x})

\* INSERT OR REPLACE INTO rollups_daily, once per rolled group: the rows in
\* conflict are deleted and the new row is inserted under a fresh rowid
Upserted(ro, rowid, ev, cutoff) ==
    LET gs == SetToSeq(RolledGroups(ev, cutoff)) IN
    {r \in ro : \A i \in DOMAIN gs : ~KeyConflict(r, gs[i])}
      \cup { [rowid |-> rowid + i - 1] @@ RollupValues(ev, gs[i]) : i \in DOMAIN gs }

\* a DELETE whose bound is one clock unit off the bound of the rollup query
DeleteOldOffByOne(ev, cutoff) == SelectSeq(ev, LAMBDA r : ~(r.ts < cutoff - 1))

\* a DELETE that also takes the rows observed exactly at the cutoff
DeleteOldInclusive(ev, cutoff) == SelectSeq(ev, LAMBDA r : ~(r.ts <= cutoff))

\* DELETE FROM events WHERE ts < cutoff
DeleteOld(ev, cutoff) == SelectSeq(ev, LAMBDA r : ~(r.ts < cutoff))

compact_old_data ==
    LET cutoff == Cutoff(now) IN
    /\ call = "none"
    /\ rollups' = Upserted(rollups, nextRowid, events, cutoff)
    /\ nextRowid' = nextRowid + Cardinality(RolledGroups(events, cutoff))
    /\ events' = DeleteOld(events, cutoff)
    /\ evicted' = evicted \cup {e \in Range(events) \ Range(DeleteOld(events, cutoff)) :
                                  e.type = "listing" /\ e.price # NoPrice}
    /\ prices_tbl' = SelectSeq(prices_tbl, LAMBDA r : ~(r.seen_at < cutoff))
    /\ uncommitted' = {}
    /\ compactRuns' = Min(compactRuns + 1, 2)
    /\ UNCHANGED <<now, nextId, call, inserted, listings_tbl>>
    /\ UNCHANGED notStore

\* time passes between two operations
Tick ==
    /\ call = "none"
    /\ now < MaxTime
    /\ now' = now + 1
    /\ compactRuns' = 0
    /\ UNCHANGED <<events, uncommitted, nextId, call, inserted, rollups, nextRowid, evicted,
                   prices_tbl, listings_tbl>>
    /\ UNCHANGED notStore

(***************************************************************************)
(* The market client: fetch_listings and fetch_transactions.               *)
(***************************************************************************)
MAX_TRANSACTIONS_PAGES == 10
\* time.sleep(2) before PermissionError is raised
UNAUTHORIZED_SLEEP == 2
\* fetch_transactions is tried with pages from 1 - PageMargin to MAX_TRANSACTIONS_PAGES + PageMargin
PageMargin == 2

PageArgs == (1 - PageMargin)..(MAX_TRANSACTIONS_PAGES + PageMargin)

\* what the upstream does with one request: requests.get raises
\* requests.RequestException, or a response comes back with a status and,
\* under 200, a "result" that holds entries or is empty
Replies ==
    {[kind |-> "exception"]}
      \cup {[kind |-> "response", status |-> st, result |-> "none"] : st \in {401, 404, 500}}
      \cup {[kind |-> "response", status |-> 200, result |-> r] : r \in {"items", "empty"}}

\* the outcome of a client call: it returns data, or raises exc after sleeping
\* slept seconds; requests is the number of upstream requests it sent
Returned(data) == [exc |-> "none", slept |-> 0, data |-> data, requests |-> 1]
Raised(exc, slept, requests) == [exc |-> exc, slept |-> slept, data |-> "none", requests |-> requests]

\* a client that raises PermissionError at once, without the sleep
RespondNoSleep(reply) ==
    IF reply.kind = "exception" THEN Raised("RuntimeError", 0, 1)
    ELSE IF reply.status = 401 THEN Raised("PermissionError", 0, 1)
    ELSE IF reply.status >= 500 THEN Raised("RuntimeError", 0, 1)
    ELSE IF reply.status # 200 THEN Raised("RuntimeError", 0, 1)
    ELSE Returned(reply.result)

\* the classification of the reply, after requests.get was called
Respond(reply) ==
    IF reply.kind = "exception" THEN Raised("RuntimeError", 0, 1)
    ELSE IF reply.status = 401 THEN Raised("PermissionError", UNAUTHORIZED_SLEEP, 1)
    ELSE IF reply.status >= 500 THEN Raised("RuntimeError", 0, 1)
    ELSE IF reply.status # 200 THEN Raised("RuntimeError", 0, 1)
    ELSE Returned(reply.result)

\* the condition under which the client raises (or "none" when it returns):
\* "Retryable" for a transport failure or a status >= 500, "Unauthorized" for
\* 401, "Fatal" for any other status that is not 200
Condition(reply) ==
    IF reply.kind = "exception" THEN "Retryable"
    ELSE IF reply.status = 401 THEN "Unauthorized"
    ELSE IF reply.status >= 500 THEN "Retryable"
    ELSE IF reply.status # 200 THEN "Fatal"
    ELSE "none"

\* why an attempt on a page failed: the client's condition, "NoKey" when
\* _auth_headers raised, "BadPage" when the page check raised, "Store" when the
\* store call raised
FailureOf(r, reply) ==
    IF r.exc = "none" THEN "Store"
    ELSE IF r.exc = "ValueError" THEN "BadPage"
    ELSE IF r.requests = 0 THEN "NoKey"
    ELSE Condition(reply)

\* _auth_headers() is evaluated as an argument of requests.get: without AUTH_KEY
\* it raises RuntimeError before the request is sent
FetchListings(auth, pg, reply) ==
    IF ~auth THEN Raised("RuntimeError", 0, 0) ELSE Respond(reply)

\* a page check that also rejects the last page
PageRejectedOffByOne(pg) == pg < 1 \/ pg >= MAX_TRANSACTIONS_PAGES

\* if page < 1 or page > MAX_TRANSACTIONS_PAGES
PageRejected(pg) == pg < 1 \/ pg > MAX_TRANSACTIONS_PAGES

FetchTransactions(auth, pg, reply) ==
    IF PageRejected(pg) THEN Raised("ValueError", 0, 0)
    ELSE IF ~auth THEN Raised("RuntimeError", 0, 0)
    ELSE Respond(reply)

\* one call of a client function, with the outcome r
ClientCall(r) ==
    /\ f_pc = "call"
    /\ f_pc' = "returned"
    /\ f_requests' = f_requests + r.requests
    /\ f_exc' = r.exc
    /\ f_slept' = r.slept
    /\ f_data' = r.data
    /\ UNCHANGED <<f_fn, f_page, authKey, readVars, storeVars, pollVars, scanVars>>

fetch_listings ==
    /\ f_fn = "fetch_listings"
    /\ \E reply \in Replies : ClientCall(FetchListings(authKey, f_page, reply))

fetch_transactions ==
    /\ f_fn = "fetch_transactions"
    /\ \E reply \in Replies : ClientCall(FetchTransactions(authKey, f_page, reply))

(***************************************************************************)
(* poll_once and the steady-state loop of run_poll_loop.                   *)
(***************************************************************************)
\* pages is drawn from 0..MaxPages
MaxPages == 11
\* poll_count is only printed; the model counts it up to MaxPolls
MaxPolls == 2

\* the page loops of poll_once catch Exception; every exception the client and
\* the store raise is one ("StoreError" stands for what store_listings /
\* store_transactions raise: ValueError, TypeError, sqlite3.Error)
Exceptions == {"RuntimeError", "PermissionError", "ValueError", "StoreError"}

\* a page loop that catches RuntimeError only
PollOnceCatchesRuntimeError(exc) == exc = "RuntimeError"

\* except Exception as e: print(...)
PollOnceCatches(exc) == exc \in Exceptions

\* a loop whose only except clause is except PermissionError
LoopHandlerPermissionOnly(exc) ==
    IF exc = "PermissionError" THEN "PermissionError" ELSE "none"

\* the except clause of run_poll_loop that takes exc: "PermissionError",
\* "Exception", or "none" when the exception leaves the loop
LoopHandler(exc) ==
    IF exc = "PermissionError" THEN "PermissionError"
    ELSE IF exc \in Exceptions THEN "Exception"
    ELSE "none"

\* COMPACTION_INTERVAL, in clock units of the scheduler (24 hours by default)
COMPACTION_INTERVAL == 2
\* time.time() when run_poll_loop starts: the seconds since 1970, which are
\* more than COMPACTION_INTERVAL
StartClock == COMPACTION_INTERVAL + 1
\* the clock of the scheduler is followed up to MaxClock
MaxClock == 8

\* a timer test that also fires when exactly the interval has passed
CompactionDueAtInterval(t, last) == t - last >= COMPACTION_INTERVAL

\* if time.time() - _last_compaction > COMPACTION_INTERVAL
CompactionDue(t, last) == t - last > COMPACTION_INTERVAL

\* a loop that resets the timer after a run that raised as well
TimerAfterAnyRun(err, t, last) == t

\* compact_old_data(conn); _last_compaction = time.time(): the assignment is
\* skipped when the call raises err
TimerAfter(err, t, last) == IF err = "none" THEN t ELSE last

\* time passing while the scheduler sleeps or works: no time or one clock unit
Elapsed == {0, 1}

\* range(1, min(MAX_TRANSACTIONS_PAGES, pages) + 1)
TransactionPages(n) == 1..Min(MAX_TRANSACTIONS_PAGES, n)

\* for i in range(1, 11)
INITIAL_SCAN_PAGES == 10

\* whether the startup scan ends with page i: "break" after an exception,
\* "break" after an empty result, or the range is exhausted
InitialScanStops(raised, empty, i) == raised \/ empty \/ i = INITIAL_SCAN_PAGES

\* one pass of the startup scan of run_poll_loop, "for i in range(1, 11)":
\* fetch_listings, store_listings, break on an empty result; except Exception:
\* break.  No transaction page is fetched before the loop starts polling.
initial_scan_page ==
    /\ pc = "initial"
    /\ fetchedL' = [fetchedL EXCEPT ![init_i] = @ + 1]
    /\ \E reply \in Replies, storeRaises \in BOOLEAN :
          LET r == FetchListings(authKey, init_i, reply)
              raised == r.exc # "none" \/ storeRaises
              empty == ~raised /\ r.data = "empty"
              stop == InitialScanStops(raised, empty, init_i)
          IN  /\ failed' = (failed \/ raised)
              /\ pauseDue' = IF r.exc = "PermissionError" THEN r.slept = 0
                             ELSE IF r.slept > 0 THEN FALSE
                             ELSE pauseDue
              /\ init_i' = IF stop THEN init_i ELSE init_i + 1
              /\ pc' = IF stop THEN "top" ELSE "initial"
    /\ UNCHANGED <<pages, p, poll_count, fetchedT, unauthorized, escaped, handler, compactFailed, clock,
                   _last_compaction, compactionOwed, authKey, readVars, storeVars, fetchVars,
                   scanVars>>

\* the top of "while True": start = time.time(); poll_count += 1; poll_once is entered
start_cycle ==
    /\ pc = "top"
    /\ poll_count' = Min(poll_count + 1, MaxPolls)
    /\ p' = 1
    /\ fetchedL' = [q \in 1..MaxPages |-> 0]
    /\ fetchedT' = [q \in 1..MaxPages |-> 0]
    /\ failed' = FALSE
    /\ unauthorized' = FALSE
    /\ escaped' = FALSE
    /\ handler' = "none"
    /\ pc' = IF pages >= 1 THEN "listings" ELSE "after_poll"
    /\ compactFailed' = FALSE
    /\ \E d \in Elapsed : clock' = Min(clock + d, MaxClock)
    /\ init_i' = 1
    /\ UNCHANGED <<pages, pauseDue, _last_compaction, compactionOwed,
                   authKey, readVars, storeVars, fetchVars, scanVars>>

\* what one page of a loop of poll_once leads to: r is the outcome of the fetch,
\* storeRaises whether the store call then raises, last whether the loop is at
\* its last page, next the position after the loop.  An exception the loop does
\* not catch leaves poll_once and reaches the except clauses of run_poll_loop,
\* which sleep 5 seconds; the loop then goes back to its top.
PollPage(r, storeRaises, last, next) ==
    LET exc == IF r.exc # "none" THEN r.exc
               ELSE IF storeRaises THEN "StoreError" ELSE "none"
        caught == exc = "none" \/ PollOnceCatches(exc)
    IN  /\ failed' = (failed \/ exc # "none")
        /\ unauthorized' = (unauthorized \/ r.exc = "PermissionError")
        /\ escaped' = (escaped \/ ~caught)
        /\ handler' = IF caught THEN handler ELSE LoopHandler(exc)
        /\ pauseDue' = IF ~caught THEN FALSE
                       ELSE IF r.exc = "PermissionError" THEN r.slept = 0
                       ELSE IF r.slept > 0 THEN FALSE
                       ELSE pauseDue
        /\ pc' = IF ~caught THEN (IF LoopHandler(exc) = "none" THEN "crashed" ELSE "top")
                 ELSE IF last THEN next
                 ELSE pc
        /\ p' = IF caught /\ ~last THEN p + 1 ELSE 1
        /\ UNCHANGED <<pages, poll_count, compactFailed, clock, _last_compaction, compactionOwed,
                       init_i, authKey, readVars, storeVars, fetchVars, scanVars>>

\* one pass of "for p in range(1, pages + 1)": fetch_listings, store_listings, except
poll_listing_page ==
    /\ pc = "listings"
    /\ fetchedL' = [fetchedL EXCEPT ![p] = @ + 1]
    /\ UNCHANGED fetchedT
    /\ \E reply \in Replies, storeRaises \in BOOLEAN :
          PollPage(FetchListings(authKey, p, reply), storeRaises, p = pages, "transactions")

\* one pass of "for p in range(1, min(MAX_TRANSACTIONS_PAGES, pages) + 1)"
poll_transaction_page ==
    /\ pc = "transactions"
    /\ fetchedT' = [fetchedT EXCEPT ![p] = @ + 1]
    /\ UNCHANGED fetchedL
    /\ \E reply \in Replies, storeRaises \in BOOLEAN :
          PollPage(FetchTransactions(authKey, p, reply), storeRaises,
                   p = Min(MAX_TRANSACTIONS_PAGES, pages), "after_poll")

\* the try block after poll_once returned, up to the test of the compaction
\* timer: the two counting queries and the print.  err is what the queries
\* raise; an exception goes to the except clauses, which sleep 5 seconds, and
\* the pass ends with its sleep (which may be of 0 seconds).
finish_cycle ==
    /\ pc = "after_poll"
    /\ \E err \in {"none", "StoreError"} :
          /\ handler' = IF err = "none" THEN "none" ELSE LoopHandler(err)
          /\ pauseDue' = IF err = "none" THEN pauseDue ELSE FALSE
          /\ pc' = IF err # "none"
                   THEN (IF LoopHandler(err) = "none" THEN "crashed" ELSE "top")
                   ELSE IF CompactionDue(clock, _last_compaction) THEN "compacting" ELSE "top"
    /\ UNCHANGED <<pages, p, poll_count, fetchedL, fetchedT, failed, unauthorized, escaped,
                   compactFailed, clock, _last_compaction, compactionOwed, init_i, authKey, readVars, storeVars, fetchVars, scanVars>>

\* compact_old_data(conn) called from the try block of run_poll_loop.  err is
\* what it raises; an exception goes to the except clauses, which sleep 5
\* seconds, and the pass ends with its sleep.  When it returns,
\* _last_compaction = time.time() reads the clock again.
poll_compaction ==
    /\ pc = "compacting"
    /\ \E err \in {"none", "StoreError"}, d \in Elapsed :
          /\ compactFailed' = (err # "none")
          /\ compactionOwed' = (err # "none")
          /\ clock' = Min(clock + d, MaxClock)
          /\ _last_compaction' = TimerAfter(err, Min(clock + d, MaxClock), _last_compaction)
          /\ handler' = IF err = "none" THEN "none" ELSE LoopHandler(err)
          /\ pauseDue' = IF err = "none" THEN pauseDue ELSE FALSE
          /\ pc' = IF err # "none" /\ LoopHandler(err) = "none" THEN "crashed" ELSE "top"
    /\ UNCHANGED <<pages, p, poll_count, fetchedL, fetchedT, failed, unauthorized, escaped,
                   init_i, authKey, readVars, storeVars, fetchVars, scanVars>>

(***************************************************************************)
(* full_scan_ah.                                                           *)
(***************************************************************************)
\* the upstream has listings on the pages up to MaxScanPage
MaxScanPage == 4
max_empty_pages == 3
max_retries == 3

\* a sweep that does not reset the counter on a non-empty page
KeepCount(ce) == ce

\* result is not empty: consecutive_empty = 0, before store_listings is called
AfterItems(ce) == 0

\* a retry check that gives a page up one failure early
RetriesExceededEarly(rc) == rc >= max_retries

\* if retry_count > max_retries
RetriesExceeded(rc) == rc > max_retries

\* what the upstream can answer for listing page pg: it has listings on the
\* pages up to MaxScanPage only
ListingReplies(pg) ==
    {reply \in Replies :
        (reply.kind = "response" /\ reply.status = 200 /\ reply.result = "items")
            => pg <= MaxScanPage}

\* one pass of "while consecutive_empty < max_empty_pages": fetch_listings, then
\* either the empty branch, or the reset of the counter and store_listings, or
\* the except clause
scan_listing_page ==
    /\ scan_pc = "listings"
    /\ consecutive_empty < max_empty_pages
    /\ \E reply \in ListingReplies(page), storeRaises \in BOOLEAN :
          LET r == FetchListings(authKey, page, reply)
              gotEmpty == r.exc = "none" /\ r.data = "empty"
              gotItems == r.exc = "none" /\ r.data = "items"
              stored == gotItems /\ ~storeRaises
              raised == r.exc # "none" \/ (gotItems /\ storeRaises)
              exhausted == raised /\ RetriesExceeded(retry_count + 1)
              advance == gotEmpty \/ stored \/ exhausted
              ce1 == IF gotItems THEN AfterItems(consecutive_empty) ELSE consecutive_empty
              ce2 == IF gotEmpty \/ exhausted THEN ce1 + 1 ELSE ce1
              run1 == IF gotItems THEN 0 ELSE emptyRun
          IN  /\ consecutive_empty' = ce2
              /\ page' = IF advance THEN page + 1 ELSE page
              /\ retry_count' = IF advance THEN 0 ELSE retry_count + 1
              /\ scan_pc' = IF ce2 < max_empty_pages THEN "listings" ELSE "transactions"
              /\ pageFetches' = IF advance THEN 0 ELSE pageFetches + 1
              /\ lastFetches' = IF advance THEN pageFetches + 1 ELSE lastFetches
              /\ lastOutcome' = IF gotEmpty THEN "empty"
                                ELSE IF stored THEN "stored"
                                ELSE IF exhausted THEN "exhausted"
                                ELSE lastOutcome
              /\ trailingEmpty' = IF stored THEN 0
                                  ELSE IF gotEmpty \/ exhausted
                                  THEN Min(trailingEmpty + 1, max_empty_pages)
                                  ELSE trailingEmpty
              /\ emptyRun' = IF gotEmpty \/ exhausted THEN run1 + 1 ELSE run1
              /\ lastFailure' = IF advance THEN "none" ELSE FailureOf(r, reply)
              /\ everyFailed' = (everyFailed /\ r.exc # "none")
              /\ listingFetches' = IF everyFailed /\ r.exc # "none" THEN listingFetches + 1 ELSE 0
              /\ transactionFetches' = 0
              /\ storeCalled' = (storeCalled \/ gotItems)
    /\ UNCHANGED <<tx_page, retry, authKey, readVars, storeVars, fetchVars, pollVars>>

\* a transaction sweep that gives a page up one failure early
TxRetriesExceededEarly(rc) == rc >= max_retries

\* if retry > max_retries (the transaction sweep)
TxRetriesExceeded(rc) == rc > max_retries

\* one pass of "while retry <= max_retries" for transaction page tx_page:
\* fetch_transactions, store_transactions, break or the except clause
scan_transaction_attempt ==
    /\ scan_pc = "transactions"
    /\ \E reply \in Replies, storeRaises \in BOOLEAN :
          LET r == FetchTransactions(authKey, tx_page, reply)
              raised == r.exc # "none" \/ storeRaises
              leave == ~raised \/ TxRetriesExceeded(retry + 1)
          IN  /\ retry' = IF leave THEN 0 ELSE retry + 1
              /\ tx_page' = IF leave /\ tx_page < MAX_TRANSACTIONS_PAGES
                            THEN tx_page + 1 ELSE tx_page
              /\ scan_pc' = IF leave /\ tx_page = MAX_TRANSACTIONS_PAGES
                            THEN "done" ELSE "transactions"
              /\ lastFailure' = IF leave THEN "none" ELSE FailureOf(r, reply)
              /\ everyFailed' = (everyFailed /\ r.exc # "none")
              /\ listingFetches' = IF everyFailed /\ r.exc # "none" THEN listingFetches ELSE 0
              /\ transactionFetches' = IF everyFailed /\ r.exc # "none"
                                       THEN transactionFetches + 1 ELSE 0
              /\ storeCalled' = (storeCalled \/ r.exc = "none")
    /\ UNCHANGED <<page, consecutive_empty, retry_count, pageFetches, lastFetches,
                   lastOutcome, trailingEmpty, emptyRun,
                   authKey, readVars, storeVars, fetchVars, pollVars>>

\* KeyboardInterrupt: the listing sweep re-raises it and the transaction sweep
\* does not catch it
keyboard_interrupt ==
    /\ scan_pc \in {"listings", "transactions"}
    /\ scan_pc' = "interrupted"
    /\ UNCHANGED <<page, consecutive_empty, retry_count, tx_page, retry, pageFetches,
                   lastFetches, lastOutcome, trailingEmpty, emptyRun, lastFailure,
                   everyFailed, listingFetches, transactionFetches, storeCalled,
                   authKey, readVars, storeVars, fetchVars, pollVars>>

(***************************************************************************)
(* Initial states and specifications.                                      *)
(***************************************************************************)
\* a fresh database: init_db has created the empty tables
StoreStart ==
    /\ now = 0
    /\ events = << >>
    /\ uncommitted = {}
    /\ nextId = 1
    /\ call = "none"
    /\ inserted = 0
    /\ rollups = {}
    /\ nextRowid = 1
    /\ compactRuns = 0
    /\ evicted = {}
    /\ prices_tbl = << >>
    /\ listings_tbl = << >>

\* the statistics engine and the reporting surface when they are not run
\* Python None where a record is expected
None == [absent |-> TRUE]

StatsIdle ==
    /\ sample = << >>
    /\ s_pc = "idle"
    /\ s_out = None

ApiIdle ==
    /\ api_call = "none"
    /\ api_arg = << >>
    /\ api_response = None

ReadIdle ==
    /\ StatsIdle
    /\ ApiIdle

\* a client call about to be made
FetchStart ==
    /\ f_pc = "call"
    /\ f_requests = 0
    /\ f_exc = "none"
    /\ f_slept = 0
    /\ f_data = "none"

FetchIdle ==
    /\ f_fn = "fetch_listings"
    /\ f_page = 1
    /\ FetchStart

\* run_poll_loop about to begin its startup scan
PollStart ==
    /\ pc = "initial"
    /\ init_i = 1
    /\ p = 1
    /\ poll_count = 0
    /\ fetchedL = [q \in 1..MaxPages |-> 0]
    /\ fetchedT = [q \in 1..MaxPages |-> 0]
    /\ failed = FALSE
    /\ unauthorized = FALSE
    /\ escaped = FALSE
    /\ handler = "none"
    /\ pauseDue = FALSE
    /\ compactFailed = FALSE
    /\ clock = StartClock
    /\ _last_compaction = 0
    /\ compactionOwed = FALSE

PollIdle ==
    /\ pages = 0
    /\ PollStart

\* full_scan_ah at its first pass
ScanStart ==
    /\ scan_pc = "listings"
    /\ page = 1
    /\ consecutive_empty = 0
    /\ retry_count = 0
    /\ tx_page = 1
    /\ retry = 0
    /\ pageFetches = 0
    /\ lastFetches = 0
    /\ lastOutcome = "none"
    /\ trailingEmpty = 0
    /\ emptyRun = 0
    /\ lastFailure = "none"
    /\ everyFailed = TRUE
    /\ listingFetches = 0
    /\ transactionFetches = 0
    /\ storeCalled = FALSE

InitStore ==
    /\ StoreStart
    /\ authKey = TRUE
    /\ FetchIdle
    /\ PollIdle
    /\ ScanStart
    /\ ReadIdle

NextStore ==
    \/ store_listings
    \/ store_transactions
    \/ InsertEntry
    \/ RaiseInLoop
    \/ CommitStore
    \/ compact_old_data
    \/ Tick

SpecStore == InitStore /\ [][NextStore]_vars

InitFetch ==
    /\ authKey \in BOOLEAN
    /\ f_fn \in {"fetch_listings", "fetch_transactions"}
    /\ f_page \in PageArgs
    /\ FetchStart
    /\ StoreStart
    /\ PollIdle
    /\ ScanStart
    /\ ReadIdle

NextFetch ==
    \/ fetch_listings
    \/ fetch_transactions

SpecFetch == InitFetch /\ [][NextFetch]_vars

InitPoll ==
    /\ authKey \in BOOLEAN
    /\ pages \in 0..MaxPages
    /\ PollStart
    /\ StoreStart
    /\ FetchIdle
    /\ ScanStart
    /\ ReadIdle

NextPoll ==
    \/ initial_scan_page
    \/ start_cycle
    \/ poll_listing_page
    \/ poll_transaction_page
    \/ finish_cycle
    \/ poll_compaction

SpecPoll == InitPoll /\ [][NextPoll]_vars

\* run_poll_loop is a sequential program that is not stopped: it always takes
\* its next step
FairSpecPoll == SpecPoll /\ WF_vars(NextPoll)

InitScan ==
    /\ authKey \in BOOLEAN
    /\ ScanStart
    /\ ReadIdle
    /\ StoreStart
    /\ FetchIdle
    /\ PollIdle

NextScan ==
    \/ scan_listing_page
    \/ scan_transaction_attempt
    \/ keyboard_interrupt

SpecScan == InitScan /\ [][NextScan]_vars

\* full_scan_ah is a sequential program that is not stopped: it always takes
\* its next step
FairSpecScan == SpecScan /\ WF_vars(NextScan)

(***************************************************************************)
(* The statistics engine: the computation of _get_item_stats (api.py) on   *)
(* the prices its query returned, and the quartiles that compact_old_data  *)
(* computes for one group.  Prices are whole numbers here.  The median of  *)
(* an even-sized sample may fall between two of them, so a median is       *)
(* carried doubled (median2 = 2 * median); 1.5 * iqr is compared doubled,  *)
(* as 3 * iqr.  The prices include negative ones: nothing in the scanner   *)
(* rejects them, and they are what makes the outlier bounds of             *)
(* _get_item_stats exclude every price.                                    *)
(***************************************************************************)
\* the longest list of prices the computations are run on
MaxSample == 5
SamplePrices == {-10, -1, 1, 3, 10}
Samples == UNION {[1..k -> SamplePrices] : k \in 0..MaxSample}

\* 2 * statistics.median of a sorted non-empty sequence
Median2(s) ==
    LET n == Len(s) IN
    IF n % 2 = 1 THEN 2 * s[n \div 2 + 1]
    ELSE s[n \div 2] + s[n \div 2 + 1]

RECURSIVE Sum(_)
Sum(s) == IF s = << >> THEN 0 ELSE Head(s) + Sum(Tail(s))

\* q1_idx = n // 4
Q1Index(n) == n \div 4
\* q3_idx = (3 * n) // 4
Q3Index(n) == (3 * n) \div 4

\* lower_bound <= p <= upper_bound, with lower_bound = max(0, q1 - 1.5 * iqr)
\* and upper_bound = q3 + 1.5 * iqr
InBounds(v, q1, q3) ==
    /\ Max(0, 2 * q1 - 3 * (q3 - q1)) <= 2 * v
    /\ 2 * v <= 2 * q3 + 3 * (q3 - q1)

\* an engine that applies the outlier bounds whatever iqr is
PricesFilteredAlways(prices, q1, q3) ==
    LET kept == SelectSeq(prices, LAMBDA v : InBounds(v, q1, q3))
    IN  IF kept = << >> THEN prices ELSE kept

\* prices_filtered: the prices within the bounds if iqr > 0, else prices; and
\* prices again if that left nothing
PricesFiltered(prices, q1, q3) ==
    LET kept == SelectSeq(prices, LAMBDA v : InBounds(v, q1, q3))
        filtered == IF q3 - q1 > 0 THEN kept ELSE prices
    IN  IF filtered = << >> THEN prices ELSE filtered

\* _get_item_stats from "if not prices or len(prices) < 3" on.  mean is
\* filtered_sum / filtered_size; stdev and volatility are not computed here
\* (see Volatility).
ItemStats(prices) ==
    IF Len(prices) < 3 THEN None
    ELSE LET s == Sorted(prices)
             n == Len(s)
             q1 == s[Q1Index(n) + 1]
             q3 == s[Q3Index(n) + 1]
             used == PricesFiltered(prices, q1, q3)
             f == Sorted(used)
         IN  [median2 |-> Median2(f), min |-> f[1], max |-> f[Len(f)],
              filtered_sum |-> Sum(f), filtered_size |-> Len(f),
              q1 |-> q1, q3 |-> q3, sample_size |-> n, prices_filtered |-> used]

\* compact_old_data from "if prices:" to the values it upserts
RollupOfPrices(prices) ==
    LET s == Sorted(prices) IN
    [median2 |-> Median2(s), p25 |-> P25(s), p75 |-> P75(s), count |-> Len(prices)]

\* _get_item_stats run on the prices of sample
compute_item_stats ==
    /\ s_pc = "input"
    /\ s_out' = ItemStats(sample)
    /\ s_pc' = "stats"
    /\ UNCHANGED <<sample, apiVars, storeVars, authKey, fetchVars, pollVars, scanVars>>

\* the rollup of compact_old_data computed for a group whose prices are sample
compute_rollup ==
    /\ s_pc = "input"
    /\ sample # << >>
    /\ s_out' = RollupOfPrices(sample)
    /\ s_pc' = "rollup"
    /\ UNCHANGED <<sample, apiVars, storeVars, authKey, fetchVars, pollVars, scanVars>>

InitStats ==
    /\ sample \in Samples
    /\ s_pc = "input"
    /\ s_out = None
    /\ ApiIdle
    /\ StoreStart
    /\ authKey = TRUE
    /\ FetchIdle
    /\ PollIdle
    /\ ScanStart

NextStats ==
    \/ compute_item_stats
    \/ compute_rollup

SpecStats == InitStats /\ [][NextStats]_vars

(***************************************************************************)
(* The reporting surface (api.py): _get_item_stats with its query, and the *)
(* handlers api_live, api_recommendations, api_undervalued,                *)
(* api_market_overview, api_trend and api_stats.  They read the database   *)
(* the scanner wrote: in SpecApi the table events is drawn from ApiTables, *)
(* a block of equal listing rows stored by one page (same ts) followed by  *)
(* up to MaxExtra single rows stored later.  The clock unit of SpecApi is  *)
(* five minutes.  A response is [status, data]: the data of a list         *)
(* response is carried as the set of its entries, each tagged with the id  *)
(* of the row it reports, and the caps on the list lengths (LIMIT 20 / 200 *)
(* / 300 / 1000 and [:50] / [:100]) are beyond the tables of the model.    *)
(***************************************************************************)
\* the single rows that follow the block
MaxExtra == 2
BaseSizes == {0, 4, 10, 11}
BasePrices == {<<-10>>, <<10>>}
ApiPrices == {NoPrice, <<1>>, <<3>>, <<8>>, <<10>>}

\* the identities (item_id, item_name) that store_listings writes
Identities == {ItemDisplay(i) : i \in Items}

\* the kinds of single rows: listings of every identity and price, and one sale
ExtraKinds ==
    {<<"listing", g, v>> : g \in Identities, v \in ApiPrices}
        \cup {<<"transaction", <<"a", "A">>, <<1>>>>}

ApiRow(id, type, ts, g, v) ==
    [id |-> id, type |-> type, ts |-> ts, item_id |-> g[1], item_name |-> g[2], price |-> v]

ApiTable(g, v, k, extra) ==
    [i \in 1..(k + Len(extra)) |->
        IF i <= k THEN ApiRow(i, "listing", 0, g, v)
        ELSE ApiRow(i, extra[i - k][1], i - k, extra[i - k][2], extra[i - k][3])]

ApiTables ==
    {ApiTable(b[1], b[2], b[3], x) :
        b \in Identities \X BasePrices \X BaseSizes,
        x \in UNION {[1..k -> ExtraKinds] : k \in 0..MaxExtra}}

\* the rows of rollups_daily that api_trend reads
TrendRows ==
    {[rowid |-> 1, date |-> 0, item_id |-> "a", item_name |-> "A",
      median |-> 10, p25 |-> 10, p75 |-> 10, count |-> 1]}

\* SQL "x = ?": NULL equals nothing, not even NULL
SqlEq(a, b) == a # NULL /\ b # NULL /\ a = b

\* SQL "x IS ?": NULL matches NULL
SqlIs(a, b) == a = b

\* WHERE item_id = ? AND item_name = ?
MatchesIdentity(r, g) == SqlEq(r.item_id, g[1]) /\ SqlEq(r.item_name, g[2])

Reverse(s) == [i \in 1..Len(s) |-> s[Len(s) - i + 1]]

\* SELECT price FROM events WHERE item_id = ? AND item_name = ? AND type = 'listing'
\*   AND price IS NOT NULL ORDER BY ts DESC LIMIT 1000
StatsPrices(ev, g) ==
    LET rows == SelectSeq(ev, LAMBDA r : /\ MatchesIdentity(r, g)
                                         /\ r.type = "listing"
                                         /\ r.price # NoPrice)
    IN  Reverse([i \in 1..Len(rows) |-> rows[i].price[1]])

\* _get_item_stats(cur, item_id, item_name)
GetItemStats(ev, g) == ItemStats(StatsPrices(ev, g))

\* the rows of a GROUP BY item_id, item_name group (GROUP BY puts NULLs together)
GroupRows(ev, g, priced) ==
    {r \in Range(ev) : /\ r.type = "listing"
                       /\ r.item_id = g[1]
                       /\ r.item_name = g[2]
                       /\ (priced => r.price # NoPrice)}

\* SELECT item_id, item_name, COUNT(*) FROM events WHERE type = 'listing'
\*   [AND price IS NOT NULL] GROUP BY item_id, item_name [HAVING cnt >= least]
ItemGroups(ev, least, priced) ==
    {g \in {<<r.item_id, r.item_name>> : r \in Range(ev)} :
        /\ GroupRows(ev, g, priced) # {}
        /\ Cardinality(GroupRows(ev, g, priced)) >= least}

\* Python round(n / d): to the nearest whole number, a tie going to the even one
RoundHalfEven(n, d) ==
    LET nn == IF d < 0 THEN 0 - n ELSE n
        dd == IF d < 0 THEN 0 - d ELSE d
        q == nn \div dd
        r == nn % dd
    IN  IF 2 * r < dd THEN q
        ELSE IF 2 * r > dd THEN q + 1
        ELSE IF q % 2 = 0 THEN q ELSE q + 1

\* round((1 - price / median) * 100)
DiscountPct(price, m2) == RoundHalfEven(100 * (m2 - 2 * price), m2)

\* threshold_factor = 0.7, in percent
THRESHOLD_PCT == 70
\* median * 0.85, in percent
RECOMMEND_PCT == 85
\* HAVING cnt >= 5
UNDERVALUED_MIN_COUNT == 5
\* HAVING cnt >= 10
RECOMMEND_MIN_COUNT == 10
\* ORDER BY price ASC LIMIT 10
UNDERVALUED_PER_ITEM == 10
\* if discount_pct < 15: continue
MIN_DISCOUNT_PCT == 15
\* if priority_score < 30: continue
MIN_PRIORITY == 30

\* price < median * pct / 100
PricedBelow(price, m2, pct) == 200 * price < pct * m2

\* a detector whose threshold is a tenth of the median
CandidatesBelowTenth(ev, g, m2, pct) ==
    {r \in Range(ev) : /\ MatchesIdentity(r, g)
                       /\ r.price # NoPrice
                       /\ r.type = "listing"
                       /\ 10 * r.price[1] < m2}

\* WHERE item_id = ? AND item_name = ? AND price IS NOT NULL AND price < ? AND type = 'listing'
Candidates(ev, g, m2, pct) ==
    {r \in Range(ev) : /\ MatchesIdentity(r, g)
                       /\ r.price # NoPrice
                       /\ r.type = "listing"
                       /\ PricedBelow(r.price[1], m2, pct)}

\* ORDER BY price ASC LIMIT k (rows of equal price in id order)
LowestPriced(rows, k) ==
    {r \in rows :
        Cardinality({x \in rows : \/ x.price[1] < r.price[1]
                                  \/ (x.price[1] = r.price[1] /\ x.id < r.id)}) < k}

\* ORDER BY ts DESC LIMIT 1 (rows of equal ts: the last inserted)
Latest(rows) ==
    CHOOSE r \in rows : \A x \in rows : x.ts < r.ts \/ (x.ts = r.ts /\ x.id <= r.id)

\* item_name or item_id
NameOrId(g) == IF g[2] = NULL THEN g[1] ELSE g[2]

\* the groups for which the handlers go past "if not stats or stats["median"] == 0"
WithStats(ev, gs) ==
    {g \in gs : GetItemStats(ev, g) # None /\ GetItemStats(ev, g).median2 # 0}

\* the findings of api_undervalued; threshold_x200 is 200 * threshold
Findings(ev) ==
    UNION { LET stats == GetItemStats(ev, g)
                m2 == stats.median2
            IN  { [id |-> r.id, ts |-> r.ts, item_id |-> r.item_id,
                   item_name |-> NameOrId(<<r.item_id, r.item_name>>),
                   price |-> r.price[1], median2 |-> m2,
                   threshold_x200 |-> THRESHOLD_PCT * m2,
                   discount_pct |-> DiscountPct(r.price[1], m2),
                   sample_size |-> stats.sample_size] :
                  r \in LowestPriced(Candidates(ev, g, m2, THRESHOLD_PCT), UNDERVALUED_PER_ITEM) }
          : g \in WithStats(ev, ItemGroups(ev, UNDERVALUED_MIN_COUNT, FALSE)) }

\* the values volatility = stdev / mean * 100 takes when it is not 0.  The
\* standard deviation is not computed in whole numbers; every handler that
\* uses it is run with each of these values.
Volatilities == {1, 60, 200}

\* volatility: 0 when mean <= 0 or when stdev is 0 (all filtered prices equal)
Volatility(stats, vol) ==
    IF stats.filtered_sum <= 0 \/ stats.min = stats.max THEN 0 ELSE vol

\* priority_score = round(discount_score * 0.4 + stability_score * 0.3 + confidence_score * 0.3)
\* with discount_score = min(100, discount_pct * 1.5), stability_score =
\* max(0, 100 - volatility), confidence_score = min(100, sample_size / 10 * 10)
PriorityScore(discount_pct, volatility, sample_size) ==
    RoundHalfEven(Min(400, 6 * discount_pct) + 3 * Max(0, 100 - volatility)
                    + 3 * Min(100, sample_size), 10)

\* the recommendations of api_recommendations
Recommendations(ev, vol) ==
    LET gs == {g \in WithStats(ev, ItemGroups(ev, RECOMMEND_MIN_COUNT, FALSE)) :
                  Candidates(ev, g, GetItemStats(ev, g).median2, RECOMMEND_PCT) # {}}
        Rec(g) ==
            LET stats == GetItemStats(ev, g)
                m2 == stats.median2
                r == Latest(Candidates(ev, g, m2, RECOMMEND_PCT))
                d == DiscountPct(r.price[1], m2)
            IN  [id |-> r.id, ts |-> r.ts, item_id |-> g[1], item_name |-> NameOrId(g),
                 current_price |-> r.price[1], median2 |-> m2, discount_pct |-> d,
                 priority_score |-> PriorityScore(d, Volatility(stats, vol), stats.sample_size),
                 sample_size |-> stats.sample_size]
    IN  {x \in {Rec(g) : g \in gs} :
            /\ ~(x.discount_pct < MIN_DISCOUNT_PCT)
            /\ ~(x.priority_score < MIN_PRIORITY)}

\* the entries of api_market_overview
MarketData(ev) ==
    { LET stats == GetItemStats(ev, g)
      IN  [item_id |-> g[1], item_name |-> NameOrId(g),
           trade_count |-> Cardinality(GroupRows(ev, g, TRUE)),
           median2 |-> stats.median2, min |-> stats.min, max |-> stats.max,
           sample_size |-> stats.sample_size]
      : g \in {h \in ItemGroups(ev, 1, TRUE) : GetItemStats(ev, h) # None} }

\* cutoff = _now_millis() - 5 * 60 * 1000
LiveWindow == 1
\* one_hour_ago = _now_millis() - 60 * 60 * 1000
HourLen == 12

\* the entries of api_live: WHERE ts > cutoff AND type = 'listing'
LiveData(ev, t) == {r \in Range(ev) : r.ts > t - LiveWindow /\ r.type = "listing"}

\* the data of api_stats
StatsData(ev, t) ==
    LET ts == {r.ts : r \in Range(ev)}
        first == IF ts = {} THEN 0 ELSE CHOOSE x \in ts : \A y \in ts : x <= y
        last == IF ts = {} THEN 0 ELSE CHOOSE x \in ts : \A y \in ts : x >= y
    IN  [total_events |-> Len(ev),
         total_listings |-> Cardinality({r \in Range(ev) : r.type = "listing"}),
         total_transactions |-> Cardinality({r \in Range(ev) : r.type = "transaction"}),
         unique_items |-> Cardinality({r.item_id : r \in Range(ev)} \ {NULL}),
         events_last_hour |-> Cardinality({r \in Range(ev) : r.ts > t - HourLen}),
         data_span |-> IF first # 0 /\ last # 0 THEN last - first ELSE 0]

\* what can go wrong with the store while a handler runs: nothing, the
\* connection cannot be opened (_get_conn / conn.cursor()), or a query raises
Failures == {"none", "connect", "query"}

\* the handlers whose queries run inside try / except Exception
HasTry(endpoint) ==
    endpoint \in {"api_live", "api_recommendations", "api_undervalued", "api_market_overview"}

\* the response of a handler: its data, the error envelope of its except
\* clause, or the exception leaving the handler
Response(endpoint, failure, data) ==
    IF failure = "none" THEN [status |-> "ok", data |-> data]
    ELSE IF failure = "query" /\ HasTry(endpoint) THEN [status |-> "error", data |-> {}]
    ELSE [status |-> "escaped", data |-> {}]

\* a handler run to its response
Handle(endpoint, arg, failure, data) ==
    /\ api_call' = endpoint
    /\ api_arg' = arg
    /\ api_response' = Response(endpoint, failure, data)
    /\ UNCHANGED <<statVars, storeVars, authKey, fetchVars, pollVars, scanVars>>

\* _get_item_stats called, as the handlers call it, with the identity of a
\* group of listing rows
get_item_stats ==
    /\ api_call = "none"
    /\ \E g \in ItemGroups(events, 1, FALSE) :
          /\ api_call' = "_get_item_stats"
          /\ api_arg' = g
          /\ api_response' = [status |-> "returned", data |-> GetItemStats(events, g)]
    /\ UNCHANGED <<statVars, storeVars, authKey, fetchVars, pollVars, scanVars>>

api_live ==
    /\ api_call = "none"
    /\ \E failure \in Failures :
          Handle("api_live", << >>, failure, LiveData(events, now))

api_recommendations ==
    /\ api_call = "none"
    /\ \E failure \in Failures, vol \in Volatilities :
          Handle("api_recommendations", << >>, failure, Recommendations(events, vol))

api_undervalued ==
    /\ api_call = "none"
    /\ \E failure \in Failures :
          Handle("api_undervalued", << >>, failure, Findings(events))

api_market_overview ==
    /\ api_call = "none"
    /\ \E failure \in Failures :
          Handle("api_market_overview", << >>, failure, MarketData(events))

api_trend ==
    /\ api_call = "none"
    /\ \E failure \in Failures, item \in {"a", "b"} :
          Handle("api_trend", <<item>>, failure, {r \in rollups : SqlIs(r.item_id, item)})

api_stats ==
    /\ api_call = "none"
    /\ \E failure \in Failures :
          Handle("api_stats", << >>, failure, {StatsData(events, now)})

InitApi ==
    /\ events \in ApiTables
    /\ now = MaxExtra
    /\ uncommitted = {}
    /\ nextId = Len(events) + 1
    /\ call = "none"
    /\ inserted = 0
    /\ rollups = TrendRows
    /\ nextRowid = 2
    /\ compactRuns = 0
    /\ evicted = {}
    /\ prices_tbl = << >>
    /\ listings_tbl = << >>
    /\ ApiIdle
    /\ StatsIdle
    /\ authKey = TRUE
    /\ FetchIdle
    /\ PollIdle
    /\ ScanStart

NextApi ==
    \/ get_item_stats
    \/ api_live
    \/ api_recommendations
    \/ api_undervalued
    \/ api_market_overview
    \/ api_trend
    \/ api_stats

SpecApi == InitApi /\ [][NextApi]_vars

(***************************************************************************)
(* compute_stats and detect_undervalued of scanner.py, which read the      *)
(* tables prices and listings.  stddev is not a whole number and is not    *)
(* carried.                                                                *)
(***************************************************************************)
\* UNDERPRICE_THRESHOLD (0.7 by default), in percent
UNDERPRICE_THRESHOLD_PCT == 70

\* SELECT price FROM prices WHERE item_id IS ? AND item_name IS ? AND price IS NOT NULL
RECURSIVE PricesOfItem(_, _)
PricesOfItem(pr, g) ==
    IF pr = << >> THEN << >>
    ELSE LET r == Head(pr) IN
         (IF r.item_id = g[1] /\ r.item_name = g[2] /\ r.price # NoPrice
          THEN <<r.price[1]>> ELSE << >>) \o PricesOfItem(Tail(pr), g)

\* compute_stats(conn, item_key)
ComputeStats(pr, g) ==
    LET prices_sorted == Sorted(PricesOfItem(pr, g)) IN
    IF prices_sorted = << >> THEN [count |-> 0]
    ELSE [count |-> Len(prices_sorted), median |-> Median(prices_sorted),
          p25 |-> P25(prices_sorted), p75 |-> P75(prices_sorted)]

\* detect_undervalued(conn): the findings, each with the id of its listings row
DetectUndervalued(pr, li) ==
    UNION { LET stats == ComputeStats(pr, g) IN
            IF stats.count = 0 THEN {}
            ELSE IF stats.median = 0 THEN {}
            ELSE { [id |-> r.id, item_id |-> g[1], item_name |-> g[2],
                    price |-> r.price[1], median |-> stats.median] :
                   r \in {x \in Range(li) : /\ x.item_id = g[1]
                                            /\ x.item_name = g[2]
                                            /\ x.price # NoPrice
                                            /\ 100 * x.price[1]
                                                 < UNDERPRICE_THRESHOLD_PCT * stats.median} }
          : g \in {<<r.item_id, r.item_name>> : r \in Range(pr)} }

(***************************************************************************)
(* Properties of the event store and the compactor (SpecStore).            *)
(***************************************************************************)
\* the rows of events the scanner's connection sees
Rows(ev) == Range(ev)

\* rollups_daily holds a row for the (date, item_id, item_name) group of event row e
HasRollup(ro, e) ==
    \E r \in ro :
        /\ r.date = DateOf(e.ts)
        /\ r.item_id = e.item_id
        /\ r.item_name = e.item_name

\* a step of compact_old_data (every other step leaves compactRuns at 0)
IsCompactStep == compactRuns' >= 1

\* the rows left in the open transaction by store calls that raised
FailedRows ==
    {e \in Rows(events) : e.id \in uncommitted /\ (call = "none" \/ e.id < nextId - inserted)}

\* the rows of events that are committed
Committed(ev, unc) == {e \in Rows(ev) : e.id \notin unc}

\* rollups_daily without the rowids
Values(ro) ==
    {[date |-> r.date, item_id |-> r.item_id, item_name |-> r.item_name,
      median |-> r.median, p25 |-> r.p25, p75 |-> r.p75, count |-> r.count] : r \in ro}

\* C1: every events row that compact_old_data deletes belongs to a (date, item_id,
\* item_name) group that has a rollups_daily row at the moment of the deletion,
\* whatever the row's type and whether or not its price is null.
C1_DeletedRowHasRollup ==
    [][\A e \in Rows(events) : e \notin Rows(events') => HasRollup(rollups', e)]_vars

\* C2: store_listings and store_transactions are all-or-nothing per call: a row
\* inserted by a call that raised is never committed, neither at once nor by the
\* commit of a later store or compaction call on the same connection.
C2_FailedBatchNeverCommitted ==
    [][\A e \in FailedRows : e \notin Committed(events', uncommitted')]_vars

\* C3: rollups_daily holds at most one row per (date, item_id, item_name), for
\* every item identity, including one whose item_id or item_name is null.
C3_OneRollupPerKey ==
    \A r1, r2 \in rollups :
        (r1.date = r2.date /\ r1.item_id = r2.item_id /\ r1.item_name = r2.item_name)
            => r1 = r2

\* C4: a compact_old_data run that directly follows another one with the same
\* cutoff and no append in between leaves rollups_daily as the first run left it
\* (the same rows, none twice), and the events rows after any run are a subset of
\* the rows before it.
C4_CompactTwice ==
    [][/\ IsCompactStep => Rows(events') \subseteq Rows(events)
       /\ (IsCompactStep /\ compactRuns >= 1) =>
             /\ Values(rollups') = Values(rollups)
             /\ Cardinality(rollups') = Cardinality(rollups)]_vars

\* C4 witness: a second run in a row, after a first one that wrote a rollup and
\* deleted a row
C4_Witness ==
    /\ compactRuns = 2
    /\ rollups # {}
    /\ Len(events) < nextId - 1

\* C5: existing events rows are changed or removed only by compact_old_data, and
\* only rows with ts < now - RAW_RETENTION_DAYS: every other step only adds rows,
\* and after a compaction every row with ts >= cutoff is still there, unchanged.
C5_OnlyCompactorRemovesOldRows ==
    [][/\ ~IsCompactStep => Rows(events) \subseteq Rows(events')
       /\ \A e \in Rows(events) : e.ts >= Cutoff(now) => e \in Rows(events')]_vars

\* C5 witness: a compaction has just deleted a row and kept a row that is not
\* older than the cutoff
C5_Witness ==
    /\ compactRuns = 1
    /\ Len(events) < nextId - 1
    /\ \E e \in Rows(events) : e.ts >= Cutoff(now)

(***************************************************************************)
(* Properties of poll_once and run_poll_loop (SpecPoll, FairSpecPoll).     *)
(***************************************************************************)
\* C6: in one poll cycle the failure of the fetch or store of a page, whatever
\* the exception, never keeps the other pages from being attempted: every
\* listing page 1..pages and every scheduled transaction page is fetched
\* exactly once per cycle, and poll_once returns normally.
C6_EveryPageFetchedOnce ==
    /\ ~escaped
    /\ \A q \in 1..MaxPages : fetchedL[q] <= 1 /\ fetchedT[q] <= 1
    /\ pc = "after_poll" =>
          /\ \A q \in 1..pages : fetchedL[q] = 1
          /\ \A q \in TransactionPages(pages) : fetchedT[q] = 1

\* C6 witness: poll_once has returned from a cycle of several pages in which
\* every fetch raised (AUTH_KEY is not set)
C6_Witness ==
    /\ pc = "after_poll"
    /\ pages >= 2
    /\ ~authKey
    /\ failed

\* a new poll cycle has just started
CycleStarted == pc = "listings" /\ p = 1 /\ ~unauthorized

\* C7: when a fetch of steady-state polling gets HTTP 401, the loop of
\* run_poll_loop does not terminate, a pause elapses before the next upstream
\* request is sent, and a later poll cycle always starts.
C7_UnauthorizedKeepsLoopAlive ==
    /\ [](pc # "crashed")
    /\ []((pc \in {"listings", "transactions"}) => ~pauseDue)
    /\ (unauthorized ~> CycleStarted)

\* C7 witness: a cycle in which a fetch got HTTP 401 has ended without any except
\* clause of run_poll_loop, and the loop is back at its top
C7_Witness ==
    /\ pc = "top"
    /\ unauthorized
    /\ handler = "none"

(***************************************************************************)
(* Properties of the market client (SpecFetch).                            *)
(***************************************************************************)
\* C8: fetch_transactions called with a page outside 1..10 fails with ValueError
\* before any request is made; for every page inside 1..10 it makes exactly one
\* request.
C8_PageCheckedBeforeRequest ==
    (f_pc = "returned" /\ f_fn = "fetch_transactions") =>
        IF f_page \in 1..10
        THEN f_requests = 1
        ELSE f_exc = "ValueError" /\ f_requests = 0

\* C8 as amended: for a page inside 1..10 it makes exactly one request when
\* AUTH_KEY is set, and raises RuntimeError before any request when it is not.
C8_PageCheckedBeforeRequestWithKey ==
    (f_pc = "returned" /\ f_fn = "fetch_transactions") =>
        IF f_page \in 1..10
        THEN IF authKey THEN f_requests = 1
             ELSE f_exc = "RuntimeError" /\ f_requests = 0
        ELSE f_exc = "ValueError" /\ f_requests = 0

\* C8 witness: page 11 was rejected, and page 10 was requested
C8_Witness ==
    /\ f_pc = "returned"
    /\ f_fn = "fetch_transactions"
    /\ \/ f_page = 11 /\ f_exc = "ValueError" /\ authKey
       \/ f_page = 10 /\ f_requests = 1

(***************************************************************************)
(* Properties of full_scan_ah (SpecScan).                                  *)
(***************************************************************************)
\* the listing sweep has ended by its loop condition
SweepEnded == scan_pc \in {"transactions", "done"}

C10_RetriesThenNextPage ==
    [][(scan_pc = "listings" /\ scan_pc' # "interrupted") =>
          /\ page' \in {page, page + 1}
          /\ scan_pc' \in {"listings", "transactions"}
          /\ page' = page =>
                /\ retry_count' = retry_count + 1
                /\ retry_count' <= 3
                /\ pageFetches' <= 3
          /\ page' = page + 1 =>
                /\ retry_count' = 0
                /\ pageFetches' = 0
                /\ lastFetches' <= 4
          /\ (page' = page + 1 /\ lastOutcome' = "exhausted") =>
                /\ lastFetches' = 4
                /\ consecutive_empty' >= 1]_vars

\* C10 witness: a page has exhausted its retries and the next page number has
\* been fetched
C10_Witness ==
    /\ scan_pc = "listings"
    /\ lastOutcome = "exhausted"
    /\ lastFetches = 4
    /\ pageFetches >= 1

\* C11: every steady-state poll cycle attempts all transaction pages 1..10,
\* whatever the listing page count pages is.
C11_AllTransactionPagesEveryCycle ==
    pc = "after_poll" => \A q \in 1..10 : fetchedT[q] = 1

\* C19: an exception raised by compact_old_data inside a poll cycle never ends
\* the loop of run_poll_loop: it is caught by the loop's except Exception
\* clause, and the next poll cycle starts.
C19_CompactionFailureKeepsLoopAlive ==
    /\ [](pc # "crashed")
    /\ [](compactFailed => (pc = "top" /\ handler = "Exception"))
    /\ (compactFailed ~> (~compactFailed /\ handler = "none" /\ pc \in {"listings", "after_poll"}))

\* C19 witness: compact_old_data has raised in a cycle and the loop is back at its top
C19_Witness ==
    /\ compactFailed
    /\ pc = "top"
    /\ handler = "Exception"

\* the evicted rows of the date and identity of row e (absent matching absent)
EvictedLike(e) ==
    {x \in evicted : /\ DateOf(x.ts) = DateOf(e.ts)
                     /\ x.item_id = e.item_id
                     /\ x.item_name = e.item_name}

\* C20: no evicted listing price is lost from the historical record: for every
\* (date, item identity) the count of its rollups_daily row is at least the
\* number of listing events with a price of that date and identity that have
\* been deleted so far.
C20_NoEvictedPriceLost ==
    \A e \in evicted :
        \E r \in rollups :
            /\ r.date = DateOf(e.ts)
            /\ r.item_id = e.item_id
            /\ r.item_name = e.item_name
            /\ r.count >= Cardinality(EvictedLike(e))

(***************************************************************************)
(* Properties of the statistics engine (SpecStats).                        *)
(***************************************************************************)
\* sorted(sample) and its entries at floor(n/4) and floor(3n/4)
SortedSample == Sorted(sample)
SampleQ1 == SortedSample[Len(sample) \div 4 + 1]
SampleQ3 == SortedSample[(3 * Len(sample)) \div 4 + 1]

\* the prices of sample within [max(0, q1 - 1.5*iqr), q3 + 1.5*iqr]
SampleKept ==
    SelectSeq(sample, LAMBDA v :
        /\ Max(0, 2 * SampleQ1 - 3 * (SampleQ3 - SampleQ1)) <= 2 * v
        /\ 2 * v <= 2 * SampleQ3 + 3 * (SampleQ3 - SampleQ1))

\* C13: in _get_item_stats, whenever iqr == 0 the filtered sample equals the
\* input sample; for every input of 3 or more prices the filtered sample is a
\* non-empty subset of the input (the prices within the bounds, or the whole
\* input), and it is the whole input when the bounds exclude every price.
C13_FilterNoOpWhenIqrZero ==
    (s_pc = "stats" /\ Len(sample) >= 3) =>
        /\ SampleQ1 = SampleQ3 => s_out.prices_filtered = sample
        /\ s_out.prices_filtered # << >>
        /\ s_out.prices_filtered \in {SampleKept, sample}
        /\ SampleKept = << >> => s_out.prices_filtered = sample

\* C13 witness: statistics of a sample with iqr = 0 that holds prices outside
\* the bounds, all of which were kept
C13_Witness ==
    /\ s_pc = "stats"
    /\ Len(sample) >= 3
    /\ SampleQ1 = SampleQ3
    /\ SampleKept # sample
    /\ s_out.prices_filtered = sample

\* C17: for every non-empty group of n prices rolled up by compact_old_data the
\* stored p25 is sorted[floor(n/4)], the stored p75 is sorted[floor(3n/4)] (the
\* quartile-index formula of _get_item_stats) and the stored count is n.
C17_RollupQuartilesByIndex ==
    s_pc = "rollup" =>
        /\ s_out.p25 = SampleQ1
        /\ s_out.p75 = SampleQ3
        /\ s_out.count = Len(sample)

(***************************************************************************)
(* Properties of the reporting surface (SpecApi).                          *)
(***************************************************************************)
\* the listing rows with a price that belong to identity g, absent matching absent
PricedListings(g) ==
    {r \in Range(events) : /\ r.type = "listing"
                           /\ r.price # NoPrice
                           /\ r.item_id = g[1]
                           /\ r.item_name = g[2]}

\* C12: _get_item_stats returns None for every item identity that has fewer
\* than 3 listing prices in the store, and a statistics record for every
\* identity that has 3 or more.
C12_StatsIffThreeSamples ==
    api_call = "_get_item_stats" =>
        ((api_response.data = None) <=> (Cardinality(PricedListings(api_arg)) < 3))

\* the response of handler h when it answered with data
Answered(h) == api_call = h /\ api_response.status = "ok"

\* C14: every finding returned by api_undervalued has discount_pct >= 30 and a
\* price strictly below median * 0.7; every recommendation returned by
\* api_recommendations has discount_pct >= 15, a price below median * 0.85 and
\* priority_score >= 30.
C14_FindingsMeetMinimumDiscount ==
    /\ Answered("api_undervalued") =>
          \A f \in api_response.data :
              /\ f.discount_pct >= 30
              /\ 200 * f.price < 70 * f.median2
    /\ Answered("api_recommendations") =>
          \A x \in api_response.data :
              /\ x.discount_pct >= 15
              /\ 200 * x.current_price < 85 * x.median2
              /\ x.priority_score >= 30

\* the same for the items whose median is positive
C14_HoldsForPositiveMedians ==
    /\ Answered("api_undervalued") =>
          \A f \in api_response.data :
              f.median2 > 0 => (f.discount_pct >= 30 /\ 200 * f.price < 70 * f.median2)
    /\ Answered("api_recommendations") =>
          \A x \in api_response.data :
              /\ x.discount_pct >= 15
              /\ 200 * x.current_price < 85 * x.median2
              /\ x.priority_score >= 30

\* the listing prices stored for item ("a", "A"), oldest first
PricesOfA ==
    LET rows == SelectSeq(events, LAMBDA r : /\ r.item_id = "a"
                                             /\ r.item_name = "A"
                                             /\ r.type = "listing"
                                             /\ r.price # NoPrice)
    IN  [i \in 1..Len(rows) |-> rows[i].price[1]]

\* C15: for an item whose stored listing prices are [10,10,10,10,1] the median
\* over the filtered set is 10; once a listing of the item at price 3 is stored,
\* the undervaluation output holds a finding for that listing with threshold 7
\* and discount 70%.
C15_ScenarioFinding ==
    /\ (api_call = "_get_item_stats" /\ api_arg = <<"a", "A">>
            /\ PricesOfA = <<10, 10, 10, 10, 1>>) =>
          /\ api_response.data # None
          /\ api_response.data.median2 = 2 * 10
    /\ (Answered("api_undervalued") /\ PricesOfA = <<10, 10, 10, 10, 1, 3>>) =>
          \E f \in api_response.data :
              /\ f.item_id = "a"
              /\ f.price = 3
              /\ f.median2 = 2 * 10
              /\ f.threshold_x200 = 200 * 7
              /\ f.discount_pct = 70

\* C15 witness: the undervaluation output for the six prices, with the finding at price 3
C15_Witness ==
    /\ Answered("api_undervalued")
    /\ PricesOfA = <<10, 10, 10, 10, 1, 3>>
    /\ \E f \in api_response.data : f.price = 3 /\ f.discount_pct = 70

\* C16: item identity is compared with nullable-aware equality where samples
\* are collected: for every identity, including one whose item_id or item_name
\* is absent, the sample of _get_item_stats is exactly the set of priced listing
\* events whose two fields both match, absent matching absent; so an identity
\* with 3 or more stored prices gets statistics even when a field is null, and
\* their sample_size is the number of those events.
C16_SampleMatchesIdentityWithNulls ==
    (api_call = "_get_item_stats" /\ Cardinality(PricedListings(api_arg)) >= 3) =>
        /\ api_response.data # None
        /\ api_response.data.sample_size = Cardinality(PricedListings(api_arg))

\* C18: every endpoint of the reporting surface answers a store failure during
\* its handling with the error envelope {status: error, message} and never lets
\* the exception leave the handler.
C18_StoreFailureGivesErrorEnvelope ==
    api_call \in {"api_live", "api_recommendations", "api_undervalued",
                  "api_market_overview", "api_trend", "api_stats"} =>
        api_response.status \in {"ok", "error"}

\* the listing rows with a price of group g that are older than the cutoff
OldPriced(ev, g, cutoff) ==
    {e \in Rows(ev) : /\ e.ts < cutoff
                      /\ e.type = "listing"
                      /\ e.price # NoPrice
                      /\ DateOf(e.ts) = g[1]
                      /\ e.item_id = g[2]
                      /\ e.item_name = g[3]}

\* C21: the rollup that compact_old_data writes for a (date, item identity)
\* group is computed from exactly the non-null prices of the group's listing
\* events older than the cutoff: its count is the number of those events, so a
\* listing of the same calendar date with ts >= cutoff does not contribute.
C21_RollupFromOldPricesOnly ==
    [][IsCompactStep =>
          \A g \in RolledGroups(events, Cutoff(now)) :
              \A r \in rollups' :
                  (r.date = g[1] /\ r.item_id = g[2] /\ r.item_name = g[3] /\ r \notin rollups)
                      => r.count = Cardinality(OldPriced(events, g, Cutoff(now)))]_vars

\* C22: a page whose fetch ended in the Fatal condition (a status that is not
\* 200, not 401 and below 500) is not fetched again within the same sweep of
\* full_scan_ah: whenever the sweep is about to fetch the page it has just
\* fetched, that fetch ended in a Retryable condition (status >= 500 or a
\* transport failure) and not in the Fatal one.
C22_FatalPageNotFetchedAgain ==
    /\ (scan_pc = "listings" /\ pageFetches > 0) => lastFailure # "Fatal"
    /\ (scan_pc = "transactions" /\ retry > 0) => lastFailure # "Fatal"

\* C23: the 5 second sleep of the except clauses of run_poll_loop is taken in a
\* poll cycle if and only if a fetch of that cycle got HTTP 401: at the end of
\* every cycle, an except clause has run exactly when a fetch of the cycle was
\* classified Unauthorized.
C23_PauseIffUnauthorized ==
    (pc = "top" /\ poll_count >= 1) => ((handler # "none") <=> unauthorized)

\* C24: compaction runs inside a poll cycle only when the time since the last
\* successful compaction exceeds COMPACTION_INTERVAL, at most once per cycle and
\* after the cycle's appends (it is entered only from the end of poll_once's
\* part of the cycle); _last_compaction changes only when a run completes, to
\* the time read then, so more than COMPACTION_INTERVAL lies between any two
\* successful runs.
C24_CompactionOnlyWhenDue ==
    [][/\ (pc' = "compacting" /\ pc # "compacting") =>
              /\ pc = "after_poll"
              /\ clock - _last_compaction > COMPACTION_INTERVAL
       /\ (pc = "compacting") => pc' # "compacting"
       /\ (_last_compaction' # _last_compaction) =>
              /\ pc = "compacting"
              /\ ~compactFailed'
              /\ _last_compaction' = clock'
              /\ _last_compaction' - _last_compaction > COMPACTION_INTERVAL]_vars

\* C24 witness: in a cycle after the first one, more than COMPACTION_INTERVAL
\* after the start of the process, a run of compact_old_data has completed and
\* the timer holds the time of its completion
C24_Witness ==
    /\ pc = "top"
    /\ poll_count >= 2
    /\ ~compactFailed
    /\ handler = "none"
    /\ _last_compaction = clock
    /\ _last_compaction > StartClock + COMPACTION_INTERVAL

C25_StartupScanGoesOnAfterFailure ==
    [][(pc = "initial" /\ ~failed /\ failed' /\ init_i < INITIAL_SCAN_PAGES) =>
          (pc' = "initial" /\ init_i' = init_i + 1)]_vars

\* C26: the backfill at process start attempts every transaction page 1..10
\* before the first steady-state poll cycle begins.
C26_StartupFetchesAllTransactionPages ==
    (pc = "top" /\ poll_count = 0) =>
        \A q \in 1..MAX_TRANSACTIONS_PAGES : fetchedT[q] >= 1

\* C28: full_scan_ah terminates when from some page number on every listing
\* fetch returns an empty result or fails; and when every fetch fails it ends
\* after exactly 12 fetch_listings calls (pages 1 to 3, 4 attempts each) and 40
\* fetch_transactions calls (pages 1 to 10, 4 attempts each), without a store
\* call.
C28_ScanTerminates ==
    /\ <>(scan_pc \in {"done", "interrupted"})
    /\ []((everyFailed /\ scan_pc = "done") =>
              /\ listingFetches = 12
              /\ transactionFetches = 40
              /\ page = 4
              /\ ~storeCalled)

\* C28 witness: the scan has ended with every one of its fetches having failed
C28_Witness ==
    /\ scan_pc = "done"
    /\ everyFailed
    /\ listingFetches = 12
    /\ transactionFetches = 40

\* C30: no operation of the scanner inserts a row into listings or prices, so
\* after any sequence of store, clock and compaction steps on a fresh database
\* compute_stats returns count 0 for every item and detect_undervalued returns
\* no finding.
C30_LegacyTablesStayEmpty ==
    /\ prices_tbl = << >>
    /\ listings_tbl = << >>
    /\ \A g \in Identities : ComputeStats(prices_tbl, g).count = 0
    /\ DetectUndervalued(prices_tbl, listings_tbl) = {}

\* C30 witness: listings with a price have been stored and committed, and a
\* compaction has rolled one up and deleted it
C30_Witness ==
    /\ call = "none"
    /\ uncommitted = {}
    /\ rollups # {}
    /\ \E e \in Rows(events) : e.type = "listing" /\ e.price # NoPrice

\* the identities with enough listing history for api_undervalued: at least 5
\* listing rows, statistics present, median not 0
EnoughHistory(ev) == WithStats(ev, ItemGroups(ev, UNDERVALUED_MIN_COUNT, FALSE))

\* the stored listings of identity g priced strictly below median * 0.7
BelowThreshold(ev, g) ==
    {r \in PricedListings(g) :
        PricedBelow(r.price[1], GetItemStats(ev, g).median2, THRESHOLD_PCT)}

\* C27: for every item identity with enough listing history, every stored
\* listing of the item priced strictly below median * 0.7 appears in the
\* findings of api_undervalued, whenever the number of such listings over all
\* items does not exceed the cap of 100.
C27_EveryCheapListingIsAFinding ==
    (api_call = "api_undervalued" /\ api_response.status = "ok") =>
        \A g \in EnoughHistory(events) :
            \A r \in BelowThreshold(events, g) :
                \E f \in api_response.data : f.id = r.id

====
